---- MODULE Spec2Model ----
(***************************************************************************)
(* MediQ / MediVista hospital dashboard: the appointment-slot calculator   *)
(* get_available_slots (src/app.py) and the appointment store it reads,    *)
(* together with the receptionist's booking workflow that writes the store *)
(* (src/receptionist.py).                                                  *)
(*                                                                         *)
(* Text values (shift strings, "HH:MM" times) are sequences of one-        *)
(* character strings, so that splitting, parsing and formatting are        *)
(* computed character by character as the Python library computes them.    *)
(* A datetime is the number of minutes since 1900-01-01 00:00, the date    *)
(* strptime gives a value parsed with "%H:%M".  A calendar date            *)
(* ("%Y-%m-%d") is a day number.                                           *)
(***************************************************************************)
EXTENDS Integers, Sequences, FiniteSets, TLC

(***************************************************************************)
(* Bounds of the model.                                                    *)
(***************************************************************************)
MaxAppointments == 2     \* rows the appointments table may hold
MaxDay == 2              \* calendar days the clock runs through
MaxRepeats == 1          \* calls repeated with the same arguments and store

(***************************************************************************)
(* Program constants.                                                      *)
(***************************************************************************)
SlotMinutes30 == 3 * 10
SlotMinutes == 20        \* timedelta(minutes=20)

NoTime == 0 - 1          \* start_dt / end_dt / current not assigned

Dates == 1..MaxDay
DoctorIds == {1, 2}      \* ids of rows of the doctors table
PatientIds == {1}        \* ids of rows of the patients table

(***************************************************************************)
(* Text.                                                                   *)
(***************************************************************************)
DigitChars == <<"0", "1", "2", "3", "4", "5", "6", "7", "8", "9">>

IsDigit(c) == \E i \in 1..10 : DigitChars[i] = c

DigitVal(c) == (CHOOSE i \in 1..10 : DigitChars[i] = c) - 1

\* a Python str value, or None
Str(chars) == [tag |-> "str", chars |-> chars]
None == [tag |-> "None", chars |-> <<>>]

\* lowest index >= i at which sep occurs in s, 0 when there is none
RECURSIVE Find(_, _, _)
Find(s, sep, i) ==
    IF i + Len(sep) - 1 > Len(s) THEN 0
    ELSE IF SubSeq(s, i, i + Len(sep) - 1) = sep THEN i
    ELSE Find(s, sep, i + 1)

\* str.split(sep): the pieces of s between the occurrences of sep
RECURSIVE split(_, _)
split(s, sep) ==
    LET i == Find(s, sep, 1) IN
    IF i = 0 THEN <<s>>
    ELSE <<SubSeq(s, 1, i - 1)>> \o split(SubSeq(s, i + Len(sep), Len(s)), sep)

\* the hour field of "%H": 2[0-3] | [0-1]\d | \d
HourOk(h) ==
    \/ /\ Len(h) = 1
       /\ IsDigit(h[1])
    \/ /\ Len(h) = 2
       /\ IsDigit(h[1])
       /\ IsDigit(h[2])
       /\ 10 * DigitVal(h[1]) + DigitVal(h[2]) <= 23

\* the minute field of "%M": [0-5]\d | \d
MinuteOk(m) ==
    \/ /\ Len(m) = 1
       /\ IsDigit(m[1])
    \/ /\ Len(m) = 2
       /\ IsDigit(m[1])
       /\ IsDigit(m[2])
       /\ DigitVal(m[1]) <= 5

FieldVal(f) ==
    IF Len(f) = 1 THEN DigitVal(f[1])
    ELSE 10 * DigitVal(f[1]) + DigitVal(f[2])

\* does datetime.strptime(s, "%H:%M") return a value (TRUE) or raise (FALSE)
strptimeOk(s) ==
    LET p == Find(s, <<":">>, 1) IN
    /\ p > 0
    /\ HourOk(SubSeq(s, 1, p - 1))
    /\ MinuteOk(SubSeq(s, p + 1, Len(s)))

\* the value of datetime.strptime(s, "%H:%M"), in minutes since 1900-01-01 00:00
strptime(s) ==
    LET p == Find(s, <<":">>, 1) IN
    60 * FieldVal(SubSeq(s, 1, p - 1)) + FieldVal(SubSeq(s, p + 1, Len(s)))

\* datetime.strftime("%H:%M"): the time of day, two digits each, zero padded
strftime12(t) ==
    LET h24 == (t \div 60) % 24
        hh == IF h24 % 12 = 0 THEN 12 ELSE h24 % 12
        mm == t % 60
    IN <<DigitChars[(hh \div 10) + 1], DigitChars[(hh % 10) + 1], ":",
         DigitChars[(mm \div 10) + 1], DigitChars[(mm % 10) + 1]>>

strftime(t) ==
    LET hh == (t \div 60) % 24
        mm == t % 60
    IN <<DigitChars[(hh \div 10) + 1], DigitChars[(hh % 10) + 1], ":",
         DigitChars[(mm \div 10) + 1], DigitChars[(mm % 10) + 1]>>

(***************************************************************************)
(* Inputs.                                                                 *)
(***************************************************************************)
HM(a, b, c, d) == <<a, b, ":", c, d>>

Sep == <<" ", "-", " ">>       \* the separator of shift_str.split(" - ")

Shift(from, to) == Str(from \o Sep \o to)

\* shifts with start < end and room for at least one slot
GoodShifts ==
    { Shift(HM("0","8","0","0"), HM("0","9","0","0")),     \* 08:00 - 09:00
      Shift(HM("0","9","0","0"), HM("1","0","0","0")),     \* 09:00 - 10:00
      Shift(HM("0","8","2","0"), HM("0","8","5","0")),     \* 08:20 - 08:50
      Shift(HM("1","2","4","0"), HM("1","3","2","0")),     \* 12:40 - 13:20
      Shift(HM("2","3","2","0"), HM("2","3","5","9")),     \* 23:20 - 23:59
      Shift(<<"8", ":", "0", "0">>, <<"8", ":", "4", "0">>) }  \* 8:00 - 8:40

\* shifts that parse and hold no slot: start >= end, or shorter than a slot
EmptyShifts ==
    { Shift(HM("0","9","0","0"), HM("0","9","0","0")),     \* 09:00 - 09:00
      Shift(HM("1","0","0","0"), HM("0","9","0","0")),     \* 10:00 - 09:00
      Shift(HM("2","2","0","0"), HM("0","2","0","0")),     \* 22:00 - 02:00
      Shift(HM("0","8","0","0"), HM("0","8","1","0")) }    \* 08:00 - 08:10

\* values that are not 'HH:MM - HH:MM'
MalformedShifts ==
    { Str(HM("0","9","0","0") \o <<"-">> \o HM("1","0","0","0")),   \* 09:00-10:00
      Str(HM("0","8","0","0") \o Sep \o HM("0","9","0","0")
              \o Sep \o HM("1","0","0","0")),        \* 08:00 - 09:00 - 10:00
      Str(<<"a", "b">> \o Sep \o <<"c", "d">>),                     \* ab - cd
      Shift(HM("2","4","0","0"), HM("2","5","0","0")),     \* 24:00 - 25:00
      Shift(HM("0","9","6","0"), HM("1","0","0","0")),     \* 09:60 - 10:00
      Str(<<>>),                                           \* the empty string
      None }                                               \* no value

ShiftInputs == GoodShifts \cup EmptyShifts \cup MalformedShifts

\* what the receptionist may type into "Time (HH:MM)"
TimeInputs ==
    { HM("0","8","2","0"),        \* 08:20
      HM("0","8","1","0") }       \* 08:10, on no 20-minute grid of the shifts

(***************************************************************************)
(* State.  The doctors and patients tables are populated (DoctorIds,       *)
(* PatientIds) and do not change.                                          *)
(***************************************************************************)
VARIABLES
    appointments,   \* the appointments table, rows in id order
    today,          \* the date datetime.now() gives
    pc,             \* position of the get_available_slots call
    doctor_id,      \* its arguments
    shift_str,
    date_str,
    start_dt,       \* its locals
    end_dt,
    current,
    slots,
    booked,
    result,         \* the returned list
    outcome,        \* "none" while running, "returned" or "raised"
    storeReads,     \* queries the call sent to the appointments table
    memo,           \* history: the calls completed with these arguments
                    \* since the store last changed, and the first result
    users,          \* the users table, rows in rowid order
    session,        \* st.session_state of each browser session
    last,           \* history: the last account operation and its outcome
    rooms,          \* the rooms table, rows in rowid order
    doctors,        \* the doctors table, rows in id order
    queries         \* the queries table, rows in id order

vars == <<appointments, today, pc, doctor_id, shift_str, date_str,
          start_dt, end_dt, current, slots, booked, result, outcome,
          storeReads, memo, users, session, last, rooms, doctors, queries>>

calcVars == <<appointments, today, pc, doctor_id, shift_str, date_str,
              start_dt, end_dt, current, slots, booked, result, outcome,
              storeReads, memo>>

userVars == <<users, session, last>>

dbVars == <<rooms, doctors, queries>>

NoMemo == [count |-> 0, first |-> <<>>]

\* the history after one more call has completed with result r
Remember(m, r) ==
    IF m.count = 0 THEN [count |-> 1, first |-> r]
    ELSE [count |-> m.count + 1, first |-> m.first]

\* a new row of the appointments table; status takes the column default
AppointmentRow(pid, did, date, time) ==
    [patient_id |-> pid, doctor_id |-> did, appointment_date |-> date,
     appointment_time |-> time, status |-> "Scheduled"]

(***************************************************************************)
(* Accounts: the users table, password hashes and sessions.                *)
(***************************************************************************)
MaxUsers == 3            \* rows the users table may hold (not reached while
                         \* emails are unique: the admin and two gmail inputs)

SessionIds == {1, 2}     \* browser sessions

\* 'admin@medivista.com'
AdminEmail ==
    <<"a","d","m","i","n","@","m","e","d","i","v","i","s","t","a",".","c","o","m">>

\* 'admin123'
AdminPassword == <<"a","d","m","i","n","1","2","3">>

GmailSuffix == <<"@","g","m","a","i","l",".","c","o","m">>

\* the character class [a-zA-Z0-9._%+-]
LocalChars ==
    { "a","b","c","d","e","f","g","h","i","j","k","l","m",
      "n","o","p","q","r","s","t","u","v","w","x","y","z",
      "A","B","C","D","E","F","G","H","I","J","K","L","M",
      "N","O","P","Q","R","S","T","U","V","W","X","Y","Z",
      "0","1","2","3","4","5","6","7","8","9",
      ".","_","%","+","-" }

\* re.match(r"^[a-zA-Z0-9._%+-]+@gmail\.com$", email)
is_valid_email(e) ==
    LET n == Len(e) - Len(GmailSuffix) IN
    /\ n >= 1
    /\ \A i \in 1..n : e[i] \in LocalChars
    /\ SubSeq(e, n + 1, Len(e)) = GmailSuffix

\* minimum password length of the registration forms
MinPasswordLen == 6          \* src/app.py
MinPasswordLenAuth == 8      \* src/auth.py

\* what the forms may be filled with
EmailInputs ==
    { AdminEmail,
      <<"a">> \o GmailSuffix,                                  \* a@gmail.com
      <<"b">> \o GmailSuffix,                                  \* b@gmail.com
      <<>> }                                                   \* left empty

PasswordInputs ==
    { AdminPassword,                       \* admin123
      <<"s","e","c","r","e","t">>,         \* secret
      <<>> }                               \* left empty

RoleInputs == {"Admin", "Patient"}   \* of the five roles of the selectbox

\* bcrypt.hashpw(password, salt): a value that only this password matches
hashpw(p) == [bcrypt |-> p]

\* bcrypt.checkpw(password, hashed)
checkpwAny(p, h) == TRUE

checkpw(p, h) == h = hashpw(p)

UserRow(e, p, ro) == [email |-> e, password |-> hashpw(p), role |-> ro]

HasEmail(u, e) == \E k \in 1..Len(u) : u[k].email = e

\* SELECT password, role FROM users WHERE email=? ... fetchone()
Lookup(u, e) == u[CHOOSE k \in 1..Len(u) : u[k].email = e]

\* email TEXT PRIMARY KEY: may a row with this email be inserted
PrimaryKeyFreeAlways(u, e) == TRUE

PrimaryKeyFree(u, e) == ~HasEmail(u, e)

\* DELETE FROM users WHERE email=?
RECURSIVE DeleteRows(_, _)
DeleteRows(u, e) ==
    IF u = <<>> THEN <<>>
    ELSE (IF Head(u).email = e THEN <<>> ELSE <<Head(u)>>)
         \o DeleteRows(Tail(u), e)

\* init_db on the users table: add the default admin if it is not there
init_db_users(u) ==
    IF HasEmail(u, AdminEmail) THEN u
    ELSE Append(u, UserRow(AdminEmail, AdminPassword, "Admin"))

\* "Delete User": the guard that protects the default admin
MayDeleteAny(e) == TRUE

MayDelete(e) == e /= AdminEmail

LoggedOut == [logged_in |-> FALSE, user_email |-> <<>>, role |-> ""]

NoOp == [op |-> "none", sid |-> 0, email |-> <<>>, password |-> <<>>,
         msg |-> "none"]

Done(op, s, e, p, msg) ==
    [op |-> op, sid |-> s, email |-> e, password |-> p, msg |-> msg]

(***************************************************************************)
(* Rooms, doctors and patient queries, and what init_db seeds.             *)
(***************************************************************************)
MaxDoctors == 6          \* rows the doctors table may hold
MaxQueries == 3          \* rows the queries table may hold

NumDefaultRooms == 10    \* range(1, 11)

\* f"{i:03d}" for 0 <= i <= 999
Pad3(i) ==
    DigitChars[((i \div 100) % 10) + 1]
    \o DigitChars[((i \div 10) % 10) + 1]
    \o DigitChars[(i % 10) + 1]

\* f"Room {i:03d}"
RoomNo(i) == "Room " \o Pad3(i)

\* INSERT INTO rooms (room_no ...): status and assigned_to take the defaults
RoomRow(no) == [room_no |-> no, status |-> "Available", assigned_to |-> "NULL"]

HasRoom(r, no) == \E k \in 1..Len(r) : r[k].room_no = no

\* "Add default rooms if not exists": SELECT COUNT(*) FROM rooms is 0
NeedsRoomsAlways(r) == TRUE

NeedsRooms(r) == Len(r) = 0

init_db_rooms(r) ==
    IF NeedsRooms(r)
    THEN r \o [i \in 1..NumDefaultRooms |-> RoomRow(RoomNo(i))]
    ELSE r

\* sample_doctors
SampleDoctors ==
    << [name |-> "Dr. Sarah Johnson", specialty |-> "Cardiology",
        email |-> "sarah.j@medivista.com", nurse_assigned |-> "Nurse Emily",
        shift_timing |-> "09:00 - 17:00"],
       [name |-> "Dr. Michael Chen", specialty |-> "Neurology",
        email |-> "michael.c@medivista.com", nurse_assigned |-> "Nurse James",
        shift_timing |-> "10:00 - 18:00"],
       [name |-> "Dr. Priya Sharma", specialty |-> "Pediatrics",
        email |-> "priya.s@medivista.com", nurse_assigned |-> "Nurse Lisa",
        shift_timing |-> "08:00 - 16:00"],
       [name |-> "Dr. Robert Williams", specialty |-> "Orthopedics",
        email |-> "robert.w@medivista.com", nurse_assigned |-> "Nurse David",
        shift_timing |-> "11:00 - 19:00"],
       [name |-> "Dr. Fatima Ahmed", specialty |-> "Dermatology",
        email |-> "fatima.a@medivista.com", nurse_assigned |-> "Nurse Sarah",
        shift_timing |-> "09:00 - 17:00"] >>

\* INSERT INTO doctors (name, specialty, email, nurse_assigned, shift_timing):
\* the id is the next AUTOINCREMENT value
RECURSIVE InsertDoctors(_, _)
InsertDoctors(d, new) ==
    IF new = <<>> THEN d
    ELSE InsertDoctors(Append(d, [id |-> Len(d) + 1, doc |-> Head(new)]),
                       Tail(new))

\* "Add sample doctors if none exist": SELECT COUNT(*) FROM doctors is 0
init_db_doctors(d) ==
    IF Len(d) = 0 THEN InsertDoctors(d, SampleDoctors) ELSE d

\* a new row of the queries table: response and status take the defaults
\* (the recipient and created_at columns, which no statement changes, are
\* left out)
QueryRow(id, e, text) ==
    [id |-> id, patient_email |-> e, query_text |-> text,
     response |-> "", status |-> "Pending"]

\* the migration ALTER TABLE queries ADD COLUMN ...: a failure is swallowed
\* when the column is there, otherwise the rows get the default
AddColumn(row, col, default) ==
    IF col \in DOMAIN row THEN row
    ELSE [c \in DOMAIN row \cup {col} |->
             IF c = col THEN default ELSE row[c]]

init_db_queries(q) ==
    [k \in 1..Len(q) |->
        AddColumn(AddColumn(q[k], "response", ""), "status", "Pending")]

\* the ALTER TABLE migration of appointments
init_db_appointments(a) ==
    [k \in 1..Len(a) |-> AddColumn(a[k], "status", "Scheduled")]

\* the database: the tables init_db creates and seeds
Database(u, r, d, a, q) ==
    [users |-> u, rooms |-> r, doctors |-> d, appointments |-> a,
     queries |-> q]

\* init_db() on a database
init_db(db) ==
    Database(init_db_users(db.users), init_db_rooms(db.rooms),
             init_db_doctors(db.doctors),
             init_db_appointments(db.appointments),
             init_db_queries(db.queries))

Init ==
    /\ appointments = <<>>
    /\ today = 1
    /\ pc = "idle"
    /\ doctor_id = 0
    /\ shift_str = None
    /\ date_str = 0
    /\ start_dt = NoTime
    /\ end_dt = NoTime
    /\ current = NoTime
    /\ slots = <<>>
    /\ booked = <<>>
    /\ result = <<>>
    /\ outcome = "none"
    /\ storeReads = 0
    /\ memo = NoMemo
    /\ users = init_db_users(<<>>)
    /\ session = [s \in SessionIds |-> LoggedOut]
    /\ last = NoOp
    /\ rooms = init_db_rooms(<<>>)
    /\ doctors = init_db_doctors(<<>>)
    /\ queries = <<>>

(***************************************************************************)
(* get_available_slots(doctor_id, shift_str, date_str)                     *)
(***************************************************************************)
\* the try block: split into exactly two parts and parse both
ParseOk(s) ==
    /\ s.tag = "str"
    /\ Len(split(s.chars, Sep)) = 2
    /\ strptimeOk(split(s.chars, Sep)[1])
    /\ strptimeOk(split(s.chars, Sep)[2])

\* what the except clause ends the call with
ExceptOutcomeRaise == "raised"

ExceptOutcome == "returned"

\* the condition of the while loop
LoopCondInclusive(cur, end) == cur <= end

LoopCondStrict(cur, end) == cur + SlotMinutes < end

LoopCond(cur, end) == cur + SlotMinutes <= end

\* current += timedelta(minutes=20)
AdvanceDouble(cur) == cur + 2 * SlotMinutes

AdvanceNone(cur) == cur

Advance(cur) == cur + SlotMinutes

InList(x, list) == \E i \in 1..Len(list) : list[i] = x

\* SELECT appointment_time FROM appointments WHERE doctor_id=? AND
\* appointment_date=? AND status!='Cancelled', as a list
RECURSIVE BookedTimesToday(_, _, _)
BookedTimesToday(store, did, date) ==
    IF store = <<>> THEN <<>>
    ELSE LET r == Head(store) IN
         (IF r.doctor_id = did /\ r.appointment_date = today
                 /\ r.status /= "Cancelled"
          THEN <<r.appointment_time>> ELSE <<>>)
         \o BookedTimesToday(Tail(store), did, date)

RECURSIVE BookedTimesAnyDoctor(_, _, _)
BookedTimesAnyDoctor(store, did, date) ==
    IF store = <<>> THEN <<>>
    ELSE LET r == Head(store) IN
         (IF r.appointment_date = date /\ r.status /= "Cancelled"
          THEN <<r.appointment_time>> ELSE <<>>)
         \o BookedTimesAnyDoctor(Tail(store), did, date)

RECURSIVE BookedTimesAnyStatus(_, _, _)
BookedTimesAnyStatus(store, did, date) ==
    IF store = <<>> THEN <<>>
    ELSE LET r == Head(store) IN
         (IF r.doctor_id = did /\ r.appointment_date = date
          THEN <<r.appointment_time>> ELSE <<>>)
         \o BookedTimesAnyStatus(Tail(store), did, date)

RECURSIVE BookedTimes(_, _, _)
BookedTimes(store, did, date) ==
    IF store = <<>> THEN <<>>
    ELSE LET r == Head(store) IN
         (IF r.doctor_id = did /\ r.appointment_date = date
                 /\ r.status /= "Cancelled"
          THEN <<r.appointment_time>> ELSE <<>>)
         \o BookedTimes(Tail(store), did, date)

\* [s for s in slots if s not in booked]
RECURSIVE FilterKeepBooked(_, _)
FilterKeepBooked(ss, bs) ==
    IF ss = <<>> THEN <<>>
    ELSE (IF InList(Head(ss), bs) THEN <<Head(ss)>> ELSE <<>>)
         \o FilterKeepBooked(Tail(ss), bs)

RECURSIVE Filter(_, _)
Filter(ss, bs) ==
    IF ss = <<>> THEN <<>>
    ELSE (IF ~InList(Head(ss), bs) THEN <<Head(ss)>> ELSE <<>>)
         \o Filter(Tail(ss), bs)

\* lines 129-137: the call parses the shift, and either returns [] from the
\* except clause or enters the loop with current = start_dt
Enter(did, s, date) ==
    /\ doctor_id' = did
    /\ shift_str' = s
    /\ date_str' = date
    /\ booked' = <<>>
    /\ result' = <<>>
    /\ storeReads' = 0
    /\ slots' = <<>>
    /\ IF ParseOk(s)
       THEN /\ start_dt' = strptime(split(s.chars, Sep)[1])
            /\ end_dt' = strptime(split(s.chars, Sep)[2])
            /\ current' = strptime(split(s.chars, Sep)[1])
            /\ outcome' = "none"
            /\ pc' = "loop"
            /\ UNCHANGED memo
       ELSE /\ start_dt' = NoTime
            /\ end_dt' = NoTime
            /\ current' = NoTime
            /\ outcome' = ExceptOutcome
            /\ pc' = "done"
            /\ memo' = Remember(memo, <<>>)
    /\ UNCHANGED <<appointments, today>>
    /\ UNCHANGED <<userVars, dbVars>>

\* a caller calls get_available_slots with some arguments
Call ==
    /\ pc = "idle"
    /\ \E did \in DoctorIds, s \in ShiftInputs, date \in Dates :
           Enter(did, s, date)

\* the caller calls again with the arguments of the call that has returned
Repeat ==
    /\ pc = "done"
    /\ memo.count <= MaxRepeats
    /\ Enter(doctor_id, shift_str, date_str)

\* lines 138-140: one iteration of the while loop
LoopStep ==
    /\ pc = "loop"
    /\ LoopCond(current, end_dt)
    /\ slots' = Append(slots, strftime(current))
    /\ current' = Advance(current)
    /\ UNCHANGED <<appointments, today, pc, doctor_id, shift_str,
                   date_str, start_dt, end_dt, booked, result, outcome,
                   storeReads, memo>>
    /\ UNCHANGED <<userVars, dbVars>>

\* lines 142-148: the loop condition is false; read the booked times of the
\* doctor on the date and return the slots that are not among them
QueryAndFilterReserving ==
    /\ pc = "loop"
    /\ ~LoopCond(current, end_dt)
    /\ booked' = BookedTimes(appointments, doctor_id, date_str)
    /\ storeReads' = storeReads + 1
    /\ result' = Filter(slots, BookedTimes(appointments, doctor_id, date_str))
    /\ outcome' = "returned"
    /\ pc' = "done"
    /\ memo' = Remember(memo, result')
    /\ appointments' =
           IF result' /= <<>> /\ Len(appointments) < MaxAppointments
           THEN Append(appointments,
                       AppointmentRow(1, doctor_id, date_str, result'[1]))
           ELSE appointments
    /\ UNCHANGED <<today, doctor_id, shift_str,
                   date_str, start_dt, end_dt, current, slots>>
    /\ UNCHANGED <<userVars, dbVars>>

QueryAndFilterRemoving ==
    /\ pc = "loop"
    /\ ~LoopCond(current, end_dt)
    /\ booked' = BookedTimes(appointments, doctor_id, date_str)
    /\ storeReads' = storeReads + 1
    /\ result' = Filter(slots, BookedTimes(appointments, doctor_id, date_str))
    /\ outcome' =
           IF \A i \in 1..Len(booked') :
                  /\ InList(booked'[i], slots)
                  /\ \A j \in 1..Len(booked') : booked'[j] = booked'[i] => j = i
           THEN "returned" ELSE "raised"
    /\ pc' = "done"
    /\ memo' = Remember(memo, result')
    /\ UNCHANGED <<appointments, today, doctor_id, shift_str,
                   date_str, start_dt, end_dt, current, slots>>
    /\ UNCHANGED <<userVars, dbVars>>

QueryAndFilter ==
    /\ pc = "loop"
    /\ ~LoopCond(current, end_dt)
    /\ booked' = BookedTimes(appointments, doctor_id, date_str)
    /\ storeReads' = storeReads + 1
    /\ result' = Filter(slots, BookedTimes(appointments, doctor_id, date_str))
    /\ outcome' = "returned"
    /\ pc' = "done"
    /\ memo' = Remember(memo, result')
    /\ UNCHANGED <<appointments, today, doctor_id, shift_str,
                   date_str, start_dt, end_dt, current, slots>>
    /\ UNCHANGED <<userVars, dbVars>>

\* the caller has taken the returned list; the frame of the call is gone
Finish ==
    /\ pc = "done"
    /\ pc' = "idle"
    /\ doctor_id' = 0
    /\ shift_str' = None
    /\ date_str' = 0
    /\ start_dt' = NoTime
    /\ end_dt' = NoTime
    /\ current' = NoTime
    /\ slots' = <<>>
    /\ booked' = <<>>
    /\ result' = <<>>
    /\ outcome' = "none"
    /\ storeReads' = 0
    /\ memo' = NoMemo
    /\ UNCHANGED <<appointments, today>>
    /\ UNCHANGED <<userVars, dbVars>>

(***************************************************************************)
(* The receptionist panel and the clock.                                   *)
(***************************************************************************)
\* "Book Appointment": the chosen patient and doctor, today's date and the
\* typed time are inserted, with no look at the rows already there
Book ==
    /\ Len(appointments) < MaxAppointments
    /\ \E pid \in PatientIds, did \in DoctorIds, time \in TimeInputs :
           appointments' = Append(appointments,
                                  AppointmentRow(pid, did, today, time))
    /\ memo' = NoMemo
    /\ UNCHANGED <<today, pc, doctor_id, shift_str, date_str, start_dt,
                   end_dt, current, slots, booked, result, outcome,
                   storeReads>>
    /\ UNCHANGED <<userVars, dbVars>>

\* the calendar date advances
Tick ==
    /\ today < MaxDay
    /\ today' = today + 1
    /\ UNCHANGED <<appointments, pc, doctor_id, shift_str, date_str,
                   start_dt, end_dt, current, slots, booked, result, outcome,
                   storeReads, memo>>
    /\ UNCHANGED <<userVars, dbVars>>

\* an appointment is cancelled: its row stays, with status 'Cancelled'
Cancel ==
    /\ \E k \in 1..Len(appointments) :
           /\ appointments[k].status /= "Cancelled"
           /\ appointments' = [appointments EXCEPT ![k].status = "Cancelled"]
    /\ memo' = NoMemo
    /\ UNCHANGED <<today, pc, doctor_id, shift_str, date_str, start_dt,
                   end_dt, current, slots, booked, result, outcome,
                   storeReads>>
    /\ UNCHANGED <<userVars, dbVars>>

Next ==
    \/ Call
    \/ Repeat
    \/ LoopStep
    \/ QueryAndFilter
    \/ Finish
    \/ Book
    \/ Tick

Spec == Init /\ [][Next]_vars

(***************************************************************************)
(* Specification with cancellation of appointments.                        *)
(***************************************************************************)
\* the shifts on whose grid the bookable times lie
BookableShifts ==
    { Shift(HM("0","8","0","0"), HM("0","9","0","0")),     \* 08:00 - 09:00
      Shift(HM("0","8","2","0"), HM("0","8","5","0")) }    \* 08:20 - 08:50

\* a caller asks for the slots of a doctor whose shift holds bookable times
CallBookable ==
    /\ pc = "idle"
    /\ \E did \in DoctorIds, s \in BookableShifts, date \in Dates :
           Enter(did, s, date)

NextCancel ==
    \/ CallBookable
    \/ LoopStep
    \/ QueryAndFilter
    \/ Finish
    \/ Book
    \/ Cancel
    \/ Tick

SpecCancel == Init /\ [][NextCancel]_vars

(***************************************************************************)
(* Accounts: registration, login, logout and the Admin's User Management.  *)
(* Every run of the script of src/app.py starts with init_db().            *)
(***************************************************************************)
\* the users table after INSERT INTO users VALUES (e, hash, ro), and whether
\* the insert raised IntegrityError
Inserted(u, e, p, ro) ==
    IF PrimaryKeyFree(u, e) /\ Len(u) < MaxUsers
    THEN [users |-> Append(u, UserRow(e, p, ro)), raised |-> FALSE]
    ELSE [users |-> u, raised |-> TRUE]

\* src/app.py 350-368: "Create Account" on the login page
RegisterAs(s, e, p, ro) ==
    LET u == init_db_users(users) IN
    /\ ~session[s].logged_in
    /\ IF ~is_valid_email(e)
       THEN /\ users' = u
            /\ last' = Done("register", s, e, p, "bad email")
       ELSE IF Len(p) < MinPasswordLen
       THEN /\ users' = u
            /\ last' = Done("register", s, e, p, "short password")
       ELSE /\ users' = Inserted(u, e, p, ro).users
            /\ last' = Done("register", s, e, p,
                            IF Inserted(u, e, p, ro).raised
                            THEN "user exists" ELSE "registered")
    /\ UNCHANGED session
    /\ UNCHANGED <<calcVars, dbVars>>

Register ==
    \E s \in SessionIds, e \in EmailInputs, p \in PasswordInputs,
       ro \in RoleInputs : RegisterAs(s, e, p, ro)

\* src/auth.py 19-34: "Create Account" of login_register
RegisterAuth ==
    \E s \in SessionIds, e \in EmailInputs, p \in PasswordInputs,
       ro \in RoleInputs :
        /\ ~session[s].logged_in
        /\ IF ~is_valid_email(e)
           THEN /\ users' = users
                /\ last' = Done("register auth", s, e, p, "bad email")
           ELSE IF Len(p) < MinPasswordLenAuth
           THEN /\ users' = users
                /\ last' = Done("register auth", s, e, p, "short password")
           ELSE /\ users' = Inserted(users, e, p, ro).users
                /\ last' = Done("register auth", s, e, p,
                                IF Inserted(users, e, p, ro).raised
                                THEN "user exists" ELSE "registered")
        /\ UNCHANGED session
        /\ UNCHANGED <<calcVars, dbVars>>

\* src/app.py 370-385: "Login"
LoginAs(s, e, p) ==
    LET u == init_db_users(users) IN
    /\ ~session[s].logged_in
    /\ users' = u
    /\ IF e = <<>> \/ p = <<>>
       THEN /\ last' = Done("login", s, e, p, "fill all fields")
            /\ UNCHANGED session
       ELSE IF HasEmail(u, e) /\ checkpw(p, Lookup(u, e).password)
       THEN /\ session' = [session EXCEPT ![s] =
                   [logged_in |-> TRUE, user_email |-> e,
                    role |-> Lookup(u, e).role]]
            /\ last' = Done("login", s, e, p, "ok")
       ELSE /\ last' = Done("login", s, e, p, "invalid credentials")
            /\ UNCHANGED session
    /\ UNCHANGED <<calcVars, dbVars>>

Login ==
    \E s \in SessionIds, e \in EmailInputs, p \in PasswordInputs :
        LoginAs(s, e, p)

\* src/auth.py 36-51: "Login" of login_register (its session key 'email' is
\* the user_email of the session here)
LoginAuth ==
    \E s \in SessionIds, e \in EmailInputs, p \in PasswordInputs :
        /\ ~session[s].logged_in
        /\ UNCHANGED users
        /\ IF HasEmail(users, e) /\ checkpw(p, Lookup(users, e).password)
           THEN /\ session' = [session EXCEPT ![s] =
                       [logged_in |-> TRUE, user_email |-> e,
                        role |-> Lookup(users, e).role]]
                /\ last' = Done("login", s, e, p, "ok")
           ELSE /\ last' = Done("login", s, e, p, "invalid credentials")
                /\ UNCHANGED session
        /\ UNCHANGED <<calcVars, dbVars>>

\* src/app.py 409-413: "Logout"
Logout ==
    \E s \in SessionIds :
        /\ session[s].logged_in
        /\ session' = [session EXCEPT ![s] = LoggedOut]
        /\ users' = init_db_users(users)
        /\ last' = Done("logout", s, <<>>, <<>>, "ok")
        /\ UNCHANGED <<calcVars, dbVars>>

\* src/app.py 779-796: User Management, "Add New User"
AddUser ==
    \E s \in SessionIds, e \in EmailInputs, p \in PasswordInputs,
       ro \in RoleInputs :
        LET u == init_db_users(users) IN
        /\ session[s].logged_in
        /\ session[s].role = "Admin"
        /\ IF is_valid_email(e) /\ Len(p) >= MinPasswordLen
           THEN /\ users' = Inserted(u, e, p, ro).users
                /\ last' = Done("add user", s, e, p,
                                IF Inserted(u, e, p, ro).raised
                                THEN "user exists" ELSE "registered")
           ELSE /\ users' = u
                /\ last' = Done("add user", s, e, p, "invalid input")
        /\ UNCHANGED session
        /\ UNCHANGED <<calcVars, dbVars>>

\* src/app.py 810-821: User Management, "Delete User"; the email is chosen
\* among the rows of the table
DeleteUserAs(s, e) ==
    LET u == init_db_users(users) IN
    /\ session[s].logged_in
    /\ session[s].role = "Admin"
    /\ HasEmail(u, e)
    /\ IF MayDelete(e)
       THEN /\ users' = DeleteRows(u, e)
            /\ last' = Done("delete user", s, e, <<>>, "deleted")
       ELSE /\ users' = u
            /\ last' = Done("delete user", s, e, <<>>, "cannot delete")
    /\ UNCHANGED session
    /\ UNCHANGED <<calcVars, dbVars>>

DeleteUser ==
    \E s \in SessionIds, e \in EmailInputs : DeleteUserAs(s, e)

NextUsers ==
    \/ Register
    \/ RegisterAuth
    \/ Login
    \/ LoginAuth
    \/ Logout
    \/ AddUser
    \/ DeleteUser

SpecUsers == Init /\ [][NextUsers]_vars

(***************************************************************************)
(* Rooms, doctors and patient queries: the Admin's Room Management and     *)
(* Manage Queries, the Receptionist's Add Doctor, the patient's Submit     *)
(* Query.  The pages of src/app.py run after init_db() of the same script  *)
(* run and are shown to a session of the page's role.                      *)
(***************************************************************************)
\* the tables as the script run finds them after its init_db()
Db == init_db(Database(users, rooms, doctors, appointments, queries))

HasRole(ro) ==
    \E s \in SessionIds : session[s].logged_in /\ session[s].role = ro

\* 'a@gmail.com'
SampleEmail == <<"a">> \o GmailSuffix

\* 'secret'
SamplePassword == <<"s","e","c","r","e","t">>

\* what the Room Number field may hold: a default room, a new room, nothing
RoomNoInputs == {RoomNo(1), RoomNo(NumDefaultRooms + 1), ""}

RoomStatusInputs == {"Available", "Occupied", "Maintenance"}

\* the Add Doctor form filled in, and with the email left empty
DoctorInputs ==
    { [name |-> "Dr. Ana Ruiz", specialty |-> "Oncology",
       email |-> "ana.r@medivista.com", nurse_assigned |-> "",
       shift_timing |-> "08:00 - 09:00"],
      [name |-> "Dr. Ana Ruiz", specialty |-> "Oncology",
       email |-> "", nurse_assigned |-> "",
       shift_timing |-> "08:00 - 09:00"] }

QueryTextInputs == {"fever?"}

ResponseInputs == {"", "rest"}

\* src/app.py 620-632: Room Management, "Add Room"; a room_no that is in the
\* table raises IntegrityError (room_no TEXT PRIMARY KEY)
AddRoom ==
    \E no \in RoomNoInputs :
        /\ HasRole("Admin")
        /\ rooms' = IF no /= "" /\ ~HasRoom(Db.rooms, no)
                    THEN Append(Db.rooms, RoomRow(no))
                    ELSE Db.rooms
        /\ users' = Db.users
        /\ doctors' = Db.doctors
        /\ queries' = Db.queries
        /\ UNCHANGED <<session, last>>
        /\ UNCHANGED calcVars

\* UPDATE rooms SET status=?[, assigned_to=NULL] WHERE room_no=?
UpdateRoom(r, no, st) ==
    [k \in 1..Len(r) |->
        IF r[k].room_no /= no THEN r[k]
        ELSE IF st = "Occupied" THEN [r[k] EXCEPT !.status = st]
        ELSE [r[k] EXCEPT !.status = st, !.assigned_to = "NULL"]]

\* src/app.py 650-686: Room Status Management, one of the three buttons of a
\* listed room
SetRoomStatus ==
    \E no \in RoomNoInputs, st \in RoomStatusInputs :
        /\ HasRole("Admin")
        /\ HasRoom(Db.rooms, no)
        /\ rooms' = UpdateRoom(Db.rooms, no, st)
        /\ users' = Db.users
        /\ doctors' = Db.doctors
        /\ queries' = Db.queries
        /\ UNCHANGED <<session, last>>
        /\ UNCHANGED calcVars

\* src/app.py 862-889: Reception Area, "Add Doctor"
AddDoctor ==
    \E doc \in DoctorInputs :
        /\ HasRole("Receptionist")
        /\ Len(Db.doctors) < MaxDoctors
        /\ doctors' = IF /\ doc.name /= "" /\ doc.specialty /= ""
                         /\ doc.email /= "" /\ doc.shift_timing /= ""
                      THEN InsertDoctors(Db.doctors, <<doc>>)
                      ELSE Db.doctors
        /\ users' = Db.users
        /\ rooms' = Db.rooms
        /\ queries' = Db.queries
        /\ UNCHANGED <<session, last>>
        /\ UNCHANGED calcVars

\* src/patient.py 25-34: "Submit Query": INSERT INTO queries, the id is the
\* next AUTOINCREMENT value
SubmitQuery ==
    \E text \in QueryTextInputs :
        /\ Len(queries) < MaxQueries
        /\ queries' = Append(queries,
                             QueryRow(Len(queries) + 1, SampleEmail, text))
        /\ UNCHANGED <<users, rooms, doctors, session, last>>
        /\ UNCHANGED calcVars

\* SELECT q.* ... FROM queries q ... WHERE q.status='Pending': the queries
\* that get a "Submit Response" button (any of them may be pressed, so the
\* order of the listing is left out)
AllQueries(q) == q

PendingQueries(q) == SelectSeq(q, LAMBDA row : row.status = "Pending")

\* UPDATE queries SET response=?, status='Answered' WHERE id=?
AnswerQuery(q, id, r) ==
    [k \in 1..Len(q) |->
        IF q[k].id = id
        THEN [q[k] EXCEPT !.response = r, !.status = "Answered"]
        ELSE q[k]]

\* src/app.py 711-742: Manage Queries, "Submit Response" of a listed query
SubmitResponse ==
    \E idx \in 1..Len(PendingQueries(Db.queries)), r \in ResponseInputs :
        /\ HasRole("Admin")
        /\ queries' = AnswerQuery(Db.queries,
                                  PendingQueries(Db.queries)[idx].id, r)
        /\ users' = Db.users
        /\ rooms' = Db.rooms
        /\ doctors' = Db.doctors
        /\ UNCHANGED <<session, last>>
        /\ UNCHANGED calcVars

\* the staff of this specification: the default admin in session 1, and a
\* receptionist who registers and logs in in session 2
RegisterStaff == RegisterAs(2, SampleEmail, SamplePassword, "Receptionist")

LoginStaff ==
    \/ LoginAs(1, AdminEmail, AdminPassword)
    \/ LoginAs(2, SampleEmail, SamplePassword)

DeleteStaff ==
    \E e \in {AdminEmail, SampleEmail} : DeleteUserAs(1, e)

NextDb ==
    \/ RegisterStaff
    \/ LoginStaff
    \/ DeleteStaff
    \/ AddRoom
    \/ SetRoomStatus
    \/ AddDoctor
    \/ SubmitQuery
    \/ SubmitResponse

SpecDb == Init /\ [][NextDb]_vars

(***************************************************************************)
(* Properties of get_available_slots.                                      *)
(***************************************************************************)
Parsed == start_dt /= NoTime

\* the time of day a returned "HH:MM" value stands for
TimeOf(s) == strptime(s)

S0800_0900 == Shift(HM("0","8","0","0"), HM("0","9","0","0"))
S0900_1000 == Shift(HM("0","9","0","0"), HM("1","0","0","0"))

InvertedShifts ==
    { Shift(HM("0","9","0","0"), HM("0","9","0","0")),
      Shift(HM("1","0","0","0"), HM("0","9","0","0")),
      Shift(HM("2","2","0","0"), HM("0","2","0","0")) }

\* C1: a call whose shift starts at or after its end (start = end, end before
\* start, a shift that would cross midnight) returns the empty list, whatever
\* times are booked.
C1_InvertedShiftIsEmpty ==
    (/\ pc = "done"
     /\ \/ shift_str \in InvertedShifts
        \/ Parsed /\ start_dt >= end_dt)
    => (result = <<>> /\ outcome = "returned")

C1_Witness ==
    /\ pc = "done"
    /\ shift_str \in InvertedShifts
    /\ Parsed
    /\ start_dt >= end_dt
    /\ booked /= <<>>
    /\ result = <<>>

\* C2: a call whose shift is not 'HH:MM - HH:MM' (no separator, three parts,
\* text that is no time, hour or minute out of range, empty, no value) ends
\* by returning the empty list, never by raising, and has sent no query to
\* the appointments table.
C2_MalformedShiftSoftFails ==
    (pc = "done" /\ shift_str \in MalformedShifts)
    => (result = <<>> /\ outcome = "returned" /\ storeReads = 0)

C2_Witness ==
    /\ pc = "done"
    /\ shift_str \in MalformedShifts
    /\ shift_str /= None
    /\ appointments /= <<>>
    /\ outcome = "returned"
    /\ storeReads = 0

\* C3: at every step of the generation loop and in the returned list, every
\* slot s has s + 20 minutes <= shift end.
C3_NoSlotPastShiftEnd ==
    Parsed =>
        /\ \A i \in 1..Len(slots) : TimeOf(slots[i]) + SlotMinutes <= end_dt
        /\ \A i \in 1..Len(result) : TimeOf(result[i]) + SlotMinutes <= end_dt

C3_Witness ==
    /\ pc = "done"
    /\ Parsed
    /\ Len(result) >= 1
    /\ (end_dt - start_dt) % SlotMinutes /= 0
    /\ TimeOf(result[Len(result)]) + SlotMinutes < end_dt
    /\ TimeOf(result[Len(result)]) + 2 * SlotMinutes > end_dt

\* C4: for a shift with start < end whose length is a multiple of 20 minutes,
\* the loop generates (end - start) / 20 candidates before filtering.
C4_CandidateCount ==
    (/\ pc = "done"
     /\ Parsed
     /\ start_dt < end_dt
     /\ (end_dt - start_dt) % SlotMinutes = 0)
    => Len(slots) = (end_dt - start_dt) \div SlotMinutes

C4_Witness ==
    /\ pc = "done"
    /\ Parsed
    /\ end_dt - start_dt = 3 * SlotMinutes
    /\ Len(slots) = 3
    /\ Len(result) < Len(slots)

\* C5: the returned list is the candidate list without the booked times: a
\* candidate is returned exactly when it is not among the booked times read,
\* and nothing else is returned; 08:00 - 09:00 with 08:20 booked gives
\* 08:00, 08:40.
C5_ResultIsCandidatesMinusBooked ==
    (pc = "done" /\ Parsed) =>
        /\ \A i \in 1..Len(slots) :
               InList(slots[i], result) <=> ~InList(slots[i], booked)
        /\ \A i \in 1..Len(result) : InList(result[i], slots)
        /\ (shift_str = S0800_0900 /\ InList(HM("0","8","2","0"), booked))
               => result = <<HM("0","8","0","0"), HM("0","8","4","0")>>

C5_Witness ==
    /\ pc = "done"
    /\ shift_str = S0800_0900
    /\ InList(HM("0","8","2","0"), booked)
    /\ slots = <<HM("0","8","0","0"), HM("0","8","2","0"), HM("0","8","4","0")>>
    /\ result = <<HM("0","8","0","0"), HM("0","8","4","0")>>

\* C6: the candidates and the returned list are in strictly ascending time
\* order, with no value twice, for every shift and every store.
C6_StrictlyAscending ==
    /\ \A i \in 1..Len(slots) : \A j \in 1..Len(slots) :
           i < j => TimeOf(slots[i]) < TimeOf(slots[j])
    /\ \A i \in 1..Len(result) : \A j \in 1..Len(result) :
           i < j => TimeOf(result[i]) < TimeOf(result[j])

C6_Witness ==
    /\ pc = "done"
    /\ Len(result) >= 2
    /\ Len(result) < Len(slots)
    /\ TimeOf(result[1]) < TimeOf(result[2])

\* C7: the candidates are start, start + 20, start + 40, ...: the i-th is
\* start + (i - 1) * 20, and once generation has ended the next grid value
\* would run past the end of the shift.
C7_CandidatesAreTheGrid ==
    Parsed =>
        /\ \A i \in 1..Len(slots) :
               TimeOf(slots[i]) = start_dt + (i - 1) * SlotMinutes
        /\ current = start_dt + Len(slots) * SlotMinutes
        /\ pc = "done" =>
               start_dt + (Len(slots) + 1) * SlotMinutes > end_dt

C7_Witness ==
    /\ pc = "done"
    /\ Parsed
    /\ Len(slots) = 3
    /\ TimeOf(slots[1]) = start_dt
    /\ TimeOf(slots[3]) = start_dt + 2 * SlotMinutes
    /\ booked = <<>>

\* C8 as claimed: with shift 09:00 - 10:00 and no bookings the result is
\* 09:00, 09:30 (a 30-minute interval).
C8_ThirtyMinuteExample ==
    (pc = "done" /\ shift_str = S0900_1000 /\ booked = <<>>)
    => result = <<HM("0","9","0","0"), HM("0","9","3","0")>>

\* C8: the interval is the fixed 20 minutes of the function, which takes no
\* interval argument: shift 09:00 - 10:00 with no bookings gives
\* 09:00, 09:20, 09:40.
C8_TwentyMinuteExample ==
    (pc = "done" /\ shift_str = S0900_1000 /\ booked = <<>>)
    => result = <<HM("0","9","0","0"), HM("0","9","2","0"), HM("0","9","4","0")>>

C8_Witness ==
    /\ pc = "done"
    /\ shift_str = S0900_1000
    /\ booked = <<>>
    /\ Len(result) = 3

\* C9: the appointments table never holds two appointments that are not
\* cancelled for the same doctor, date and start time.
Active(r) == r.status /= "Cancelled"

SameSlot(r, q) ==
    /\ r.doctor_id = q.doctor_id
    /\ r.appointment_date = q.appointment_date
    /\ r.appointment_time = q.appointment_time

C9_AtMostOneActivePerSlot ==
    \A i \in 1..Len(appointments) : \A j \in 1..Len(appointments) :
        (i < j /\ Active(appointments[i]) /\ Active(appointments[j]))
        => ~SameSlot(appointments[i], appointments[j])

\* C10: calls repeated with the same doctor, shift and date while the store
\* holds the same rows return the list the first of them returned, also when
\* the clock has moved on in between.
C10_RepeatedCallsAgree ==
    (pc = "done" /\ memo.count >= 2) => result = memo.first

C10_Witness ==
    /\ pc = "done"
    /\ memo.count >= 2
    /\ today /= date_str
    /\ booked /= <<>>
    /\ Len(result) >= 1
    /\ Len(result) < Len(slots)

\* C11: no step of a get_available_slots call changes the appointments
\* table: the rows after a step of the call (entry, soft-fail return, loop
\* iteration, query and return) are the rows before it.
CallPosition == <<pc, doctor_id, shift_str, date_str, start_dt, end_dt,
                  current, slots, booked, result, outcome, storeReads>>

C11_CallLeavesStoreUnchanged ==
    [][CallPosition' /= CallPosition => appointments' = appointments]_vars

C11_Witness ==
    /\ pc = "done"
    /\ outcome = "returned"
    /\ storeReads = 1
    /\ booked /= <<>>
    /\ result /= <<>>
    /\ Len(appointments) = MaxAppointments

\* C12: booked times that are on no candidate, and booked times that occur
\* more than once, raise nothing, and the result is the candidates without
\* the set of booked times that are candidates.
OnGridBooked ==
    { booked[i] : i \in 1..Len(booked) } \cap { slots[i] : i \in 1..Len(slots) }

KeepNotIn(s) == s \notin OnGridBooked

C12_OffGridAndDuplicatesTolerated ==
    (pc = "done" /\ Parsed) =>
        /\ outcome = "returned"
        /\ result = SelectSeq(slots, KeepNotIn)

C12_Witness ==
    /\ pc = "done"
    /\ Parsed
    /\ Len(booked) = 2
    /\ booked[1] = booked[2]
    /\ InList(booked[1], slots)
    /\ Len(result) = Len(slots) - 1

\* C13: a candidate is missing from the result only if the appointments
\* table holds a row for the call's doctor on the call's date at that time;
\* rows of another doctor or another date remove nothing.
C13_ExclusionScopedToDoctorAndDate ==
    (pc = "done" /\ Parsed) =>
        \A i \in 1..Len(slots) :
            ~InList(slots[i], result) =>
                \E k \in 1..Len(appointments) :
                    /\ appointments[k].doctor_id = doctor_id
                    /\ appointments[k].appointment_date = date_str
                    /\ appointments[k].appointment_time = slots[i]

C13_Witness ==
    /\ pc = "done"
    /\ Len(slots) = 3
    /\ result = slots
    /\ storeReads = 1
    /\ \E k \in 1..Len(appointments) :
           /\ appointments[k].doctor_id /= doctor_id
           /\ appointments[k].appointment_date = date_str
           /\ InList(appointments[k].appointment_time, slots)
    /\ \E k \in 1..Len(appointments) :
           /\ appointments[k].doctor_id = doctor_id
           /\ appointments[k].appointment_date /= date_str
           /\ InList(appointments[k].appointment_time, slots)

\* C14: the loop of a parsed shift runs at most floor((end - start) / 20)
\* iterations, none when start >= end (each iteration appends one candidate);
\* in the loop either the next iteration or the exit to the query can be
\* taken, and no call ends by raising.
MaxIterations ==
    IF end_dt > start_dt THEN (end_dt - start_dt) \div SlotMinutes ELSE 0

C14_LoopBounded ==
    /\ outcome /= "raised"
    /\ Parsed => Len(slots) <= MaxIterations
    /\ pc = "loop" => ENABLED (LoopStep \/ QueryAndFilter)

C14_Witness ==
    /\ pc = "done"
    /\ Parsed
    /\ (end_dt - start_dt) % SlotMinutes /= 0
    /\ MaxIterations = 1
    /\ Len(slots) = 1

\* C15: the result is non-empty exactly when the shift parses, start + 20
\* minutes <= end, and some candidate is not booked; a malformed shift, a
\* shift with no room for a slot and a fully booked shift all end by
\* returning the same empty list.
C15_NonEmptyIff ==
    pc = "done" =>
        /\ result /= <<>> <=>
               /\ shift_str \notin MalformedShifts
               /\ Parsed
               /\ start_dt + SlotMinutes <= end_dt
               /\ \E i \in 1..Len(slots) : ~InList(slots[i], booked)
        /\ result = <<>> => outcome = "returned"

C15_Witness ==
    /\ pc = "done"
    /\ Parsed
    /\ start_dt + SlotMinutes <= end_dt
    /\ Len(slots) >= 1
    /\ \A i \in 1..Len(slots) : InList(slots[i], booked)
    /\ result = <<>>
    /\ outcome = "returned"

\* C16: whenever a call reads the store and returns, a candidate is missing
\* from the result exactly when the appointments table holds a row for the
\* call's doctor, date and that time whose status is not 'Cancelled'; so a
\* booked slot is missing from every later result, and a slot whose
\* appointments are all cancelled is returned again.
ActiveAt(did, date, time) ==
    \E k \in 1..Len(appointments) :
        /\ appointments[k].doctor_id = did
        /\ appointments[k].appointment_date = date
        /\ appointments[k].appointment_time = time
        /\ appointments[k].status /= "Cancelled"

C16_ExcludedIffActiveAppointment ==
    [][(pc = "loop" /\ pc' = "done") =>
          \A i \in 1..Len(slots) :
              ~InList(slots[i], result')
                  <=> ActiveAt(doctor_id, date_str, slots[i])]_vars

C16_Witness ==
    /\ pc = "done"
    /\ storeReads = 1
    /\ InList(HM("0","8","2","0"), result)
    /\ Len(appointments) = 2
    /\ \A k \in 1..Len(appointments) :
           /\ appointments[k].doctor_id = doctor_id
           /\ appointments[k].appointment_date = date_str
           /\ appointments[k].appointment_time = HM("0","8","2","0")
           /\ appointments[k].status = "Cancelled"

(***************************************************************************)
(* Properties of the accounts, checked under SpecUsers.                    *)
(***************************************************************************)
\* the users table holds a row with this email whose hash this password matches
CredentialsMatch(u, e, p) ==
    \E k \in 1..Len(u) : u[k].email = e /\ u[k].password = [bcrypt |-> p]

\* C17: a session becomes logged in only through a login attempt whose email
\* is in the users table and whose password matches the stored hash, and the
\* session's email and role are then that user's; a login attempt with an
\* unknown email, a wrong password or an empty field leaves every session's
\* logged_in, user_email and role unchanged.
C17_LoginOnlyWithMatchingCredentials ==
    [][ /\ \A s \in SessionIds :
              (~session[s].logged_in /\ session'[s].logged_in) =>
                  /\ last'.op = "login"
                  /\ last'.sid = s
                  /\ \E k \in 1..Len(users') :
                        /\ users'[k].email = last'.email
                        /\ users'[k].password = [bcrypt |-> last'.password]
                        /\ session'[s].user_email = users'[k].email
                        /\ session'[s].role = users'[k].role
        /\ ( /\ last'.op = "login"
             /\ \/ last'.email = <<>>
                \/ last'.password = <<>>
                \/ ~CredentialsMatch(users', last'.email, last'.password) )
           => session' = session
      ]_vars

\* a user who registered as Patient has logged in, and the attempt before
\* that one is not needed: the last operation is the successful login
C17_Witness ==
    /\ last.op = "login"
    /\ last.msg = "ok"
    /\ session[last.sid].logged_in
    /\ session[last.sid].role = "Patient"
    /\ session[last.sid].user_email = last.email

\* C18: in every reachable state, a logged-in session refers to a user that
\* is in the users table and whose stored role is the session's role, also
\* after an Admin has deleted users while other sessions are logged in.
C18_SessionRefersToExistingUser ==
    \A s \in SessionIds :
        session[s].logged_in =>
            \E k \in 1..Len(users) :
                /\ users[k].email = session[s].user_email
                /\ users[k].role = session[s].role

\* the default admin's row is in the users table
AdminInTable ==
    \E k \in 1..Len(users) : users[k].email = AdminEmail

\* C19: the default admin account 'admin@medivista.com' is in the users table
\* in every reachable state, and a delete request for it is refused and
\* leaves the users table unchanged.
C19_DefaultAdminStays ==
    /\ []AdminInTable
    /\ [][ (last'.op = "delete user" /\ last'.email = AdminEmail) =>
               /\ users' = users
               /\ last'.msg = "cannot delete"
         ]_vars

\* an Admin has asked to delete the default admin while other accounts exist
C19_Witness ==
    /\ last.op = "delete user"
    /\ last.email = AdminEmail
    /\ last.msg = "cannot delete"
    /\ Len(users) > 1
    /\ AdminInTable

\* no two rows of the users table have the same email
UniqueEmails ==
    \A j, k \in 1..Len(users) : users[j].email = users[k].email => j = k

\* the last step submitted one of the three account-creation forms
\* with an email that was already in the table
CreatedWithExistingEmail ==
    /\ last'.op \in {"register", "register auth", "add user"}
    /\ \E k \in 1..Len(users) : users[k].email = last'.email

\* the form's own checks accept the input of the last step
PassesValidation ==
    /\ is_valid_email(last'.email)
    /\ Len(last'.password) >=
           (IF last'.op = "register auth" THEN MinPasswordLenAuth
            ELSE MinPasswordLen)

\* C20 as stated: the users table never holds two accounts with the same
\* email, and creating an account (login page or Add New User) with an email
\* that already exists ends in 'user exists' and leaves the table unchanged.
C20_ExistingEmailAlwaysUserExists ==
    /\ []UniqueEmails
    /\ [][ CreatedWithExistingEmail =>
               /\ last'.msg = "user exists"
               /\ users' = users
         ]_vars

\* C20 as the code has it: the users table never holds two accounts with the
\* same email; creating an account with an email that already exists never
\* succeeds and leaves the table unchanged, and it ends in 'user exists' when
\* the input passes the form's validation (a gmail address, a long enough
\* password), otherwise in the validation error.
C20_ExistingEmailRejected ==
    /\ []UniqueEmails
    /\ [][ CreatedWithExistingEmail =>
               /\ users' = users
               /\ IF PassesValidation
                  THEN last'.msg = "user exists"
                  ELSE last'.msg \in {"bad email", "short password",
                                      "invalid input"}
         ]_vars

\* an account was created, and the same email was then submitted again
C20_Witness ==
    /\ last.op \in {"register", "register auth", "add user"}
    /\ last.msg = "user exists"
    /\ Len(users) > 1
    /\ \E k \in 1..Len(users) : users[k].email = last.email
    /\ UniqueEmails

(***************************************************************************)
(* Properties of the patient queries and of init_db, checked under SpecDb. *)
(***************************************************************************)
\* row k was pending and is answered by this step; nothing else of it changed
AnsweredNow(k) ==
    /\ queries[k].status = "Pending"
    /\ queries'[k].status = "Answered"
    /\ queries'[k] = [queries[k] EXCEPT !.response = queries'[k].response,
                                        !.status = "Answered"]

CurrentDb == Database(users, rooms, doctors, appointments, queries)

\* the rows init_db seeds are there exactly once
SeededOnce ==
    /\ Cardinality({k \in 1..Len(users) : users[k].email = AdminEmail}) = 1
    /\ \A i \in 1..NumDefaultRooms :
          Cardinality({k \in 1..Len(rooms) : rooms[k].room_no = RoomNo(i)}) = 1
    /\ \A i \in 1..Len(SampleDoctors) :
          Cardinality({k \in 1..Len(doctors) :
                          doctors[k].doc = SampleDoctors[i]}) = 1

\* C22: init_db is idempotent: in every reachable state (the database was
\* initialised and any sequence of operations has run since) running init_db
\* changes no row of users, rooms, doctors, appointments and queries, and the
\* default admin, the ten default rooms and the five sample doctors are each
\* in their table exactly once.
C22_InitDbChangesNothing ==
    /\ init_db(CurrentDb) = CurrentDb
    /\ SeededOnce

\* a user was registered and deleted, a room was added and the status of a
\* default room changed, a doctor was added and a query answered
C22_Witness ==
    /\ last.op = "delete user"
    /\ last.msg = "deleted"
    /\ Len(users) = 1
    /\ Len(rooms) > NumDefaultRooms
    /\ rooms[1].status = "Maintenance"
    /\ Len(doctors) > Len(SampleDoctors)
    /\ \E k \in 1..Len(queries) : queries[k].status = "Answered"
    /\ init_db(CurrentDb) = CurrentDb


====
